---- MODULE Spec2Model ----
(***************************************************************************)
(* kafkaconnect_utils: KafkaConnectManager (connect_manager.py) and        *)
(* SchemaRegistryManager (schema_registry_manager.py).                     *)
(*                                                                         *)
(* One caller drives one manager call at a time.  A call is a sequence of  *)
(* HTTP exchanges; every exchange and every sleep of the current call is   *)
(* recorded in log.  Python strings that the code splits, searches or      *)
(* iterates are sequences of atoms (an atom stands for a run of            *)
(* characters that no operation of the code cuts); identifiers that are    *)
(* only tested for emptiness and pasted into a URL are TLA+ strings.       *)
(***************************************************************************)
EXTENDS Integers, Sequences, FiniteSets, TLC

VARIABLES pc,        \* "idle", "done", or the position inside get_connector_info: "config" / "status"
          op,        \* the call in progress or last completed: [name, id, arg]
          log,       \* requests and sleeps of that call, in order
          outcome,   \* how the call ended: [kind, exc, status]
          retval,    \* the value returned by the call
          r_json,    \* get_connector_info: body of the successful config fetch (r.json())
          connectors,\* get_connectors: r.json() of the listing, the list the for loop walks
          pos,       \* get_connectors: position of the for loop in connectors
          response,  \* get_connectors: the list built so far
          inspected  \* get_connectors: every info get_connector_info returned, in order

vars == <<pc, op, log, outcome, retval, r_json, connectors, pos, response, inspected>>

-----------------------------------------------------------------------------
(* Bounds *)

MaxConflicts == 2     \* 409 answers in a row to one connector's config fetch
MaxListed == 2        \* length of the connector listing returned by GET /connectors
MaxVersions == 2      \* highest version number a subject has

-----------------------------------------------------------------------------
(* Exceptions: the classes that can reach a handler, and their bases *)

Parent(cls) ==
  CASE cls = "NoConnectServerAvailable"   -> "requests.ConnectionError"
    [] cls = "NoSchemaRegistryAvailable"  -> "requests.ConnectionError"
    [] cls = "NoConnectorAvailable"       -> "requests.HTTPError"
    [] cls = "requests.ConnectionError"   -> "requests.RequestException"
    [] cls = "requests.HTTPError"         -> "requests.RequestException"
    [] cls = "requests.RequestException"  -> "OSError"
    [] cls = "builtins.ConnectionError"   -> "OSError"
    [] OTHER                              -> "Exception"

RECURSIVE IsInstance(_, _)
IsInstance(cls, base) ==
  IF cls = base THEN TRUE
  ELSE IF cls = "Exception" THEN FALSE
  ELSE IsInstance(Parent(cls), base)

\* What the name ConnectionError is bound to in each module.
ConnectConnectionError == "requests.ConnectionError"
RegistryConnectionError == "builtins.ConnectionError"
ConnectHTTPError == "requests.HTTPError"

NoException == [cls |-> "None", status |-> 0]

\* An exception instantiated by the code itself: it carries no response.
New(cls) == [cls |-> cls, status |-> 0]

-----------------------------------------------------------------------------
(* The HTTP exchange *)

Statuses == {200, 404, 409, 500}

\* What the server side does with one request: the connection fails, or a
\* response with a status code arrives.
Responses == {[fail |-> TRUE, status |-> 0]} \cup {[fail |-> FALSE, status |-> s] : s \in Statuses}

\* requests.<verb>(...) followed by r.raise_for_status(): the exception that
\* leaves the try block.  The HTTPError of raise_for_status carries the response.
Try(r) ==
  IF r.fail THEN [cls |-> "requests.ConnectionError", status |-> 0]
  ELSE IF r.status >= 400 /\ r.status < 600 THEN [cls |-> "requests.HTTPError", status |-> r.status]
  ELSE NoException

\* Values of different Python types are records with different field names.
NoValue == [none |-> TRUE]
NoArg == [none |-> TRUE]

\* body is r.json() where the log keeps it (the version listing), else NoValue.
Request(server, method, url, r) ==
  [ev |-> "request", server |-> server, method |-> method, url |-> url,
   status |-> r.status, fail |-> r.fail, secs |-> 0, body |-> NoValue]

Sleep(secs) ==
  [ev |-> "sleep", server |-> "", method |-> "", url |-> <<>>,
   status |-> 0, fail |-> FALSE, secs |-> secs, body |-> NoValue]

Raise(reqs, e) ==
  [reqs |-> reqs, kind |-> "raise", exc |-> e.cls, status |-> e.status, value |-> NoValue]

Return(reqs, v) ==
  [reqs |-> reqs, kind |-> "return", exc |-> "None", status |-> 0, value |-> v]

-----------------------------------------------------------------------------
(* Strings as sequences of atoms *)

\* Python's  sub in s
Contains(s, sub) ==
  \E i \in 0..(Len(s) - Len(sub)) : SubSeq(s, i + 1, i + Len(sub)) = sub

\* Python's  s.split(sep)  for a one-atom separator
RECURSIVE Split(_, _)
Split(s, sep) ==
  IF \A i \in 1..Len(s) : s[i] # sep THEN <<s>>
  ELSE LET i == CHOOSE k \in 1..Len(s) : s[k] = sep /\ \A j \in 1..(k - 1) : s[j] # sep
       IN <<SubSeq(s, 1, i - 1)>> \o Split(SubSeq(s, i + 1, Len(s)), sep)

\* Python's  seq[k]  with k >= 0 counted from the front and k < 0 from the
\* back; InRange is FALSE where Python raises IndexError.
InRange(seq, k) == IF k >= 0 THEN k < Len(seq) ELSE -k <= Len(seq)
Index(seq, k) == IF k >= 0 THEN seq[k + 1] ELSE seq[Len(seq) + k + 1]

-----------------------------------------------------------------------------
(* The Connect server's connectors.  A connector configuration is the       *)
(* mapping of r.json()["config"]: keys says which of the entries exist.     *)

Config(class, keys, url, whitelist, prefix) ==
  [class |-> class, keys |-> keys \cup {"connector.class"}, url |-> url,
   whitelist |-> whitelist, prefix |-> prefix]

JdbcSourceConnector == <<"io.", "confluent", ".connect.jdbc.Jdbc", "Source", "Connector">>
JdbcSinkConnector == <<"io.", "confluent", ".connect.jdbc.Jdbc", "Sink", "Connector">>
ActiveMQSourceConnectorConfig == <<"io.", "confluent", ".connect.activemq.ActiveMQ", "Source", "ConnectorConfig">>
S3SinkConnector == <<"io.", "confluent", ".connect.s3.S3", "Sink", "Connector">>
ElasticsearchSinkConnector == <<"io.", "confluent", ".connect.elasticsearch.Elasticsearch", "Sink", "Connector">>
HdfsSinkConnector == <<"io.", "confluent", ".connect.hdfs.Hdfs", "Sink", "Connector">>
IbmMQSourceConnectorConfig == <<"io.", "confluent", ".connect.ibm.mq.IbmMQ", "Source", "ConnectorConfig">>
JmsSourceConnector == <<"io.", "confluent", ".connect.jms.Jms", "Source", "Connector">>

ServerConfig(name) ==
  CASE name = "jdbc"  -> Config(JdbcSourceConnector,
                                {"connection.url", "table.whitelist", "topic.prefix"},
                                <<"jdbc:", "mysql", ":", "/", "/", "host1:3306", "/", "mydb">>,
                                <<"t1", ",", "t2">>, <<"p", "-">>)
    [] name = "query" -> Config(JdbcSourceConnector,
                                {"connection.url", "query", "topic.prefix"},
                                <<"jdbc:", "postgresql", ":", "/", "/", "host2", "/", "db2">>,
                                <<>>, <<"q", "y">>)
    [] name = "bare"  -> Config(JdbcSourceConnector,
                                {"connection.url"},
                                <<"jdbc:", "mariadb", ":", "/", "/", "host3", "/", "db3">>,
                                <<>>, <<>>)
    [] name = "h2"    -> Config(JdbcSourceConnector,
                                {"connection.url", "table.whitelist", "topic.prefix"},
                                <<"jdbc:", "h2", ":", "mem">>,
                                <<"t3">>, <<"h">>)
    [] name = "sink"  -> Config(JdbcSinkConnector, {"connection.url", "topics"},
                                <<"jdbc:", "mysql", ":", "/", "/", "host1:3306", "/", "mydb">>,
                                <<>>, <<>>)
    [] name = "s3"    -> Config(S3SinkConnector, {"topics"}, <<>>, <<>>, <<>>)
    [] OTHER          -> Config(<<"com.acme.", "Thing">>, {}, <<>>, <<>>, <<>>)

ConnectorNames == {"jdbc", "query", "bare", "h2", "sink", "s3", "acme"}

\* Identifiers a caller passes: the empty one, and the server's.
Names == {""} \cup ConnectorNames

ConnectorStates == {"RUNNING", "PAUSED"}

\* Bodies GET /connectors can return: connector names in server order.
RECURSIVE SeqsUpTo(_, _)
SeqsUpTo(S, n) ==
  IF n = 0 THEN {<<>>}
  ELSE LET shorter == SeqsUpTo(S, n - 1)
       IN shorter \cup {Append(q, x) : q \in shorter, x \in S}

Listings == SeqsUpTo(ConnectorNames, MaxListed)

-----------------------------------------------------------------------------
(* KafkaConnectManager.get_connector_info: the enrichment of r.json()      *)

At(seq, k) == IF InRange(seq, k) THEN [ok |-> TRUE, v |-> Index(seq, k)]
              ELSE [ok |-> FALSE, v |-> <<>>]

\* s.split(sep1)[k1].split(sep2)[k2]
At2(s, sep1, k1, sep2, k2) ==
  LET a == At(Split(s, sep1), k1)
  IN IF ~a.ok THEN a ELSE At(Split(a.v, sep2), k2)

\* The jdbc_* entries derived from connection.url (first dialect found wins).
JdbcEntries(url) ==
  LET mk(type, loc, dbkey, db) ==
        [ok |-> loc.ok /\ db.ok, jdbc_type |-> type, jdbc_location |-> loc.v,
         dbkey |-> dbkey, db |-> db.v]
  IN IF Contains(url, <<"mysql">>)
       THEN mk("mysql", At(Split(url, "/"), 2), "jdbc_database", At2(url, "/", 3, "?", 0))
     ELSE IF Contains(url, <<"oracle">>)
       THEN mk("oracle", At2(url, "@", 1, "/", 0), "jdbc_sid", At(Split(url, "/"), -1))
     ELSE IF Contains(url, <<"postgresql">>)
       THEN mk("postgresql", At(Split(url, "/"), 2), "jdbc_database", At(Split(url, "/"), -1))
     ELSE IF Contains(url, <<"sqlserver">>)
       THEN mk("sqlserver", At2(url, ";", 0, "/", -1), "jdbc_database", At2(url, ";", -1, "=", 1))
     ELSE IF Contains(url, <<"mariadb">>)
       THEN mk("mariadb", At(Split(url, "/"), -2), "jdbc_database", At(Split(url, "/"), -1))
     ELSE [ok |-> TRUE, jdbc_type |-> "", jdbc_location |-> <<>>, dbkey |-> "", db |-> <<>>]

\* list(chain.from_iterable((f(x), g(x)) for x in xs))
RECURSIVE KeyValueSubjects(_)
KeyValueSubjects(xs) ==
  IF xs = <<>> THEN <<>>
  ELSE <<Head(xs) \o <<"-key">>, Head(xs) \o <<"-value">>>> \o KeyValueSubjects(Tail(xs))

\* The table names themselves, without the prefix.
Topics_NoPrefix(prefix, tables) == tables

\* [f"{config['topic.prefix']}{table}" for table in tables]
Topics(prefix, tables) == [i \in 1..Len(tables) |-> prefix \o tables[i]]

\* Iterating a Python string yields its characters, each a string.
Chars(s) == [i \in 1..Len(s) |-> <<s[i]>>]

\* The known-class chain without its S3 entry.
TechnologyOf_NoS3(class) ==
  CASE class = JdbcSourceConnector           -> "JDBC"
    [] class = ActiveMQSourceConnectorConfig -> "ActiveMQ"
    [] class = ElasticsearchSinkConnector    -> "Elasticsearch"
    [] class = HdfsSinkConnector             -> "HDFS"
    [] class = IbmMQSourceConnectorConfig    -> "IBM MQ"
    [] class = JdbcSinkConnector             -> "JDBC"
    [] class = JmsSourceConnector            -> "JMS"
    [] OTHER                                 -> ""

TechnologyOf(class) ==
  CASE class = JdbcSourceConnector           -> "JDBC"
    [] class = ActiveMQSourceConnectorConfig -> "ActiveMQ"
    [] class = S3SinkConnector               -> "S3"
    [] class = ElasticsearchSinkConnector    -> "Elasticsearch"
    [] class = HdfsSinkConnector             -> "HDFS"
    [] class = IbmMQSourceConnectorConfig    -> "IBM MQ"
    [] class = JdbcSinkConnector             -> "JDBC"
    [] class = JmsSourceConnector            -> "JMS"
    [] OTHER                                 -> ""

TypeOf(class) ==
  IF Contains(class, <<"Source">>) THEN "source"
  ELSE IF Contains(class, <<"Sink">>) THEN "sink"
  ELSE "undetermined"

VendorOf(class) == IF Contains(class, <<"confluent">>) THEN "Confluent" ELSE "Unknown"

\* Lines 169-229 of get_connector_info, given the body of the config fetch
\* and the state get_connector_status returned.  keys lists the entries the
\* code added to the copy of r.json(); exc is the exception that ends the
\* enrichment, "None" if it runs to the return.  The entry "topics" is a
\* list of strings (topics) or, when topics_is_str, a string (topics_str).
Enrich(body, state) ==
  LET config == body.config
      class == config.class
      base == [name |-> body.name, config |-> config, vendor |-> VendorOf(class),
               state |-> state, type |-> TypeOf(class),
               keys |-> {"vendor", "state", "type"},
               class |-> "", jdbc_type |-> "", jdbc_location |-> <<>>,
               jdbc_database |-> <<>>, jdbc_sid |-> <<>>,
               tables |-> <<>>, topics |-> <<>>, topics_is_str |-> FALSE, topics_str |-> <<>>,
               subjects |-> <<>>]
      fail(e) == [exc |-> e, info |-> base]
  IN IF class = JdbcSourceConnector THEN
       IF "connection.url" \notin config.keys THEN fail("KeyError")
       ELSE LET j == JdbcEntries(config.url)
                withJdbc ==
                  IF j.jdbc_type = "" THEN [base EXCEPT !.class = "JDBC", !.keys = @ \cup {"class"}]
                  ELSE [base EXCEPT !.class = "JDBC",
                                    !.jdbc_type = j.jdbc_type,
                                    !.jdbc_location = j.jdbc_location,
                                    !.jdbc_database = IF j.dbkey = "jdbc_database" THEN j.db ELSE <<>>,
                                    !.jdbc_sid = IF j.dbkey = "jdbc_sid" THEN j.db ELSE <<>>,
                                    !.keys = @ \cup {"class", "jdbc_type", "jdbc_location", j.dbkey}]
            IN IF ~j.ok THEN fail("IndexError")
               ELSE IF "topic.prefix" \notin config.keys THEN fail("KeyError")
               ELSE IF "table.whitelist" \in config.keys THEN
                      LET tables == Split(config.whitelist, ",")
                          topics == Topics(config.prefix, tables)
                      IN [exc |-> "None",
                          info |-> [withJdbc EXCEPT !.tables = tables, !.topics = topics,
                                                    !.subjects = KeyValueSubjects(topics),
                                                    !.keys = @ \cup {"tables", "topics", "subjects"}]]
               ELSE [exc |-> "None",
                     info |-> [withJdbc EXCEPT !.topics_str = config.prefix, !.topics_is_str = TRUE,
                                               !.subjects = KeyValueSubjects(Chars(config.prefix)),
                                               !.keys = @ \cup {"tables", "topics", "subjects"}]]
     ELSE IF TechnologyOf(class) # "" THEN
       [exc |-> "None", info |-> [base EXCEPT !.class = TechnologyOf(class), !.keys = @ \cup {"class"}]]
     ELSE [exc |-> "None", info |-> [base EXCEPT !.keys = @ \cup {"topics"}]]

-----------------------------------------------------------------------------
(* KafkaConnectManager: the operations that make one HTTP exchange.  r is   *)
(* what the server side does with the request.                              *)

valid_connect_types == {"source", "sink", "all"}

\* __init__: the probe of the server root
KafkaConnectManager(r) ==
  LET reqs == <<Request("connect", "GET", <<>>, r)>>
      e == Try(r)
  IN IF e = NoException THEN Return(reqs, [bool |-> TRUE])
     ELSE IF IsInstance(e.cls, ConnectConnectionError) THEN Raise(reqs, New("NoConnectServerAvailable"))
     ELSE IF IsInstance(e.cls, ConnectHTTPError) THEN Return(reqs, [bool |-> TRUE])
     ELSE Raise(reqs, e)

get_connector_status(id, r, state) ==
  IF id = "" THEN Raise(<<>>, New("ValueError"))
  ELSE LET reqs == <<Request("connect", "GET", <<"connectors", id, "status">>, r)>>
           e == Try(r)
       IN IF e = NoException THEN Return(reqs, [state |-> state])
          ELSE IF IsInstance(e.cls, ConnectConnectionError) THEN Raise(reqs, New("NoConnectServerAvailable"))
          ELSE IF IsInstance(e.cls, ConnectHTTPError) THEN
                 IF e.status = 404 THEN Raise(reqs, New("NoConnectorAvailable"))
                 ELSE Raise(reqs, New("requests.HTTPError"))
          ELSE Raise(reqs, e)

\* config: [pytype, empty, json] - the Python type of the argument ("str",
\* "dict", "list" or "int"), whether len(config) is 0 and, for a str, what
\* json.loads makes of it ("error" when it raises, else the Python type of
\* the decoded value).  The value returned stands for True; it records the
\* type of the "config" member of the body that was posted.
load_connector(id, config, r) ==
  IF id = "" THEN Raise(<<>>, New("ValueError"))
  ELSE IF config.pytype = "int" THEN Raise(<<>>, New("TypeError"))
  ELSE IF config.empty THEN Raise(<<>>, New("ValueError"))
  ELSE IF config.pytype = "str" /\ config.json = "error" THEN Raise(<<>>, New("ValueError"))
  ELSE IF config.pytype # "str" /\ config.pytype # "dict" THEN Raise(<<>>, New("ValueError"))
  ELSE LET sent == IF config.pytype = "str" THEN config.json ELSE "dict"
           reqs == <<Request("connect", "POST", <<"connectors">>, r)>>
           e == Try(r)
       IN IF e = NoException THEN Return(reqs, [posted |-> sent])
          ELSE IF IsInstance(e.cls, ConnectConnectionError) THEN Raise(reqs, New("NoConnectServerAvailable"))
          ELSE Raise(reqs, e)

pause_connector(id, r) ==
  IF id = "" THEN Raise(<<>>, New("ValueError"))
  ELSE LET reqs == <<Request("connect", "PUT", <<"connectors", id, "pause">>, r)>>
           e == Try(r)
       IN IF e = NoException THEN Return(reqs, [bool |-> TRUE])
          ELSE IF IsInstance(e.cls, ConnectConnectionError) THEN Raise(reqs, New("NoConnectServerAvailable"))
          ELSE Raise(reqs, e)

resume_connector(id, r) ==
  IF id = "" THEN Raise(<<>>, New("ValueError"))
  ELSE LET reqs == <<Request("connect", "PUT", <<"connectors", id, "resume">>, r)>>
           e == Try(r)
       IN IF e = NoException THEN Return(reqs, [bool |-> TRUE])
          ELSE IF IsInstance(e.cls, ConnectConnectionError) THEN Raise(reqs, New("NoConnectServerAvailable"))
          ELSE IF IsInstance(e.cls, ConnectHTTPError) THEN
                 IF e.status = 404 THEN Raise(reqs, New("NoConnectorAvailable"))
                 ELSE Raise(reqs, New("requests.HTTPError"))
          ELSE Raise(reqs, e)

restart_connector(id, r) ==
  IF id = "" THEN Raise(<<>>, New("ValueError"))
  ELSE LET reqs == <<Request("connect", "POST", <<"connectors", id, "restart">>, r)>>
           e == Try(r)
       IN IF e = NoException THEN Return(reqs, [bool |-> TRUE])
          ELSE IF IsInstance(e.cls, ConnectConnectionError) THEN Raise(reqs, New("NoConnectServerAvailable"))
          ELSE IF IsInstance(e.cls, ConnectHTTPError) THEN
                 IF e.status = 404 THEN Raise(reqs, New("NoConnectorAvailable"))
                 ELSE Raise(reqs, New("requests.HTTPError"))
          ELSE Raise(reqs, e)

delete_connector(id, r) ==
  IF id = "" THEN Raise(<<>>, New("ValueError"))
  ELSE LET reqs == <<Request("connect", "DELETE", <<"connectors", id, "">>, r)>>
           e == Try(r)
       IN IF e = NoException THEN Return(reqs, [bool |-> TRUE])
          ELSE IF IsInstance(e.cls, ConnectConnectionError) THEN Raise(reqs, New("NoConnectServerAvailable"))
          ELSE IF IsInstance(e.cls, ConnectHTTPError) THEN
                 IF e.status = 404 THEN Raise(reqs, New("NoConnectorAvailable"))
                 ELSE Raise(reqs, New("requests.HTTPError"))
          ELSE Raise(reqs, e)

\* The retry of a 409 without the pause before it.
ConfigFetch_NoSleep(id, r) ==
  LET req == Request("connect", "GET", <<"connectors", id>>, r)
      e == Try(r)
      turn(events, next, exc) == [events |-> events, next |-> next, exc |-> exc]
  IN IF e = NoException THEN turn(<<req>>, "break", e)
     ELSE IF IsInstance(e.cls, ConnectConnectionError) THEN turn(<<req>>, "raise", New("NoConnectServerAvailable"))
     ELSE IF IsInstance(e.cls, ConnectHTTPError) THEN
            IF e.status = 404 THEN turn(<<req>>, "raise", New("NoConnectorAvailable"))
            ELSE IF e.status = 409 THEN turn(<<req>>, "continue", NoException)
            ELSE turn(<<req>>, "raise", New("requests.HTTPError"))
     ELSE turn(<<req>>, "raise", e)

\* The while loop giving up on a 409 after one sleep.
ConfigFetch_SleepThenRaise(id, r) ==
  LET req == Request("connect", "GET", <<"connectors", id>>, r)
      e == Try(r)
      turn(events, next, exc) == [events |-> events, next |-> next, exc |-> exc]
  IN IF e = NoException THEN turn(<<req>>, "break", e)
     ELSE IF IsInstance(e.cls, ConnectConnectionError) THEN turn(<<req>>, "raise", New("NoConnectServerAvailable"))
     ELSE IF IsInstance(e.cls, ConnectHTTPError) THEN
            IF e.status = 404 THEN turn(<<req>>, "raise", New("NoConnectorAvailable"))
            ELSE IF e.status = 409 THEN turn(<<req, Sleep(1)>>, "raise", New("requests.HTTPError"))
            ELSE turn(<<req>>, "raise", New("requests.HTTPError"))
     ELSE turn(<<req>>, "raise", e)

\* The while loop without the 409 branch: a 409 is an HTTPError like any other.
ConfigFetch_NoRetry(id, r) ==
  LET req == Request("connect", "GET", <<"connectors", id>>, r)
      e == Try(r)
      turn(events, next, exc) == [events |-> events, next |-> next, exc |-> exc]
  IN IF e = NoException THEN turn(<<req>>, "break", e)
     ELSE IF IsInstance(e.cls, ConnectConnectionError) THEN turn(<<req>>, "raise", New("NoConnectServerAvailable"))
     ELSE IF IsInstance(e.cls, ConnectHTTPError) THEN
            IF e.status = 404 THEN turn(<<req>>, "raise", New("NoConnectorAvailable"))
            ELSE turn(<<req>>, "raise", New("requests.HTTPError"))
     ELSE turn(<<req>>, "raise", e)

\* get_connector_info, one turn of the while loop: the events it adds to the
\* log and how it leaves the turn ("continue", "break" or "raise").
ConfigFetch(id, r) ==
  LET req == Request("connect", "GET", <<"connectors", id>>, r)
      e == Try(r)
      turn(events, next, exc) == [events |-> events, next |-> next, exc |-> exc]
  IN IF e = NoException THEN turn(<<req>>, "break", e)
     ELSE IF IsInstance(e.cls, ConnectConnectionError) THEN turn(<<req>>, "raise", New("NoConnectServerAvailable"))
     ELSE IF IsInstance(e.cls, ConnectHTTPError) THEN
            IF e.status = 404 THEN turn(<<req>>, "raise", New("NoConnectorAvailable"))
            ELSE IF e.status = 409 THEN turn(<<req, Sleep(1)>>, "continue", NoException)
            ELSE turn(<<req>>, "raise", New("requests.HTTPError"))
     ELSE turn(<<req>>, "raise", e)

\* The filter without the "all" case.
Collect_NoAll(resp, type_, info) ==
  IF info.type = type_ THEN Append(resp, info) ELSE resp

\* get_connectors, the body of the for loop after get_connector_info returned
Collect(resp, type_, info) ==
  IF type_ = "all" \/ info.type = type_ THEN Append(resp, info) ELSE resp

\* The listing without the check of type_.
Listing_Unchecked(type_, r, names) ==
  LET reqs == <<Request("connect", "GET", <<"connectors">>, r)>>
      e == Try(r)
  IN IF e = NoException THEN Return(reqs, [names |-> names])
     ELSE IF IsInstance(e.cls, ConnectConnectionError) THEN Raise(reqs, New("NoConnectServerAvailable"))
     ELSE Raise(reqs, e)

\* get_connectors up to the for loop: the argument check and the listing.
\* names is the body of a 200 answer; the value returned is the list to walk.
Listing(type_, r, names) ==
  IF type_ \notin valid_connect_types THEN Raise(<<>>, New("ValueError"))
  ELSE LET reqs == <<Request("connect", "GET", <<"connectors">>, r)>>
           e == Try(r)
       IN IF e = NoException THEN Return(reqs, [names |-> names])
          ELSE IF IsInstance(e.cls, ConnectConnectionError) THEN Raise(reqs, New("NoConnectServerAvailable"))
          ELSE Raise(reqs, e)

-----------------------------------------------------------------------------
(* SchemaRegistryManager.  r, r1, r2 are what the server side does with the *)
(* first and second request of the call; versions is the body of a 200      *)
(* answer to the version listing.                                           *)

get_config(r) ==
  LET reqs == <<Request("registry", "GET", <<"config">>, r)>>
      e == Try(r)
  IN IF e = NoException THEN Return(reqs, [json |-> "config"])
     ELSE IF IsInstance(e.cls, RegistryConnectionError) THEN Raise(reqs, New("NoSchemaRegistryAvailable"))
     ELSE Raise(reqs, e)

\* __init__:  _ = self.get_config()
SchemaRegistryManager(r) == get_config(r)

get_subjects(r) ==
  LET reqs == <<Request("registry", "GET", <<"subjects">>, r)>>
      e == Try(r)
  IN IF e = NoException THEN Return(reqs, [json |-> "subjects"])
     ELSE IF IsInstance(e.cls, RegistryConnectionError) THEN Raise(reqs, New("NoSchemaRegistryAvailable"))
     ELSE Raise(reqs, e)

get_subject_versions(subject, r, versions) ==
  IF subject = "" THEN Raise(<<>>, New("ValueError"))
  ELSE LET e == Try(r)
           req == Request("registry", "GET", <<"subjects", subject, "versions">>, r)
           reqs == <<IF e = NoException THEN [req EXCEPT !.body = [versions |-> versions]] ELSE req>>
       IN IF e = NoException THEN Return(reqs, [versions |-> versions])
          ELSE IF IsInstance(e.cls, RegistryConnectionError) THEN Raise(reqs, New("NoSchemaRegistryAvailable"))
          ELSE Raise(reqs, e)

\* The first element instead of the greatest.
Max_First(seq) == seq[1]

\* Python's max() of a non-empty list
Max(seq) == CHOOSE m \in {seq[k] : k \in 1..Len(seq)} : \A k \in 1..Len(seq) : seq[k] <= m

\* None is <<>>, the version v is <<v>>.
None == <<>>

\*   if version is None: version = max(self.get_subject_versions(subject))
\* The value returned is the version to use; max() of an empty list raises
\* ValueError.
Latest(subject, version, r1, versions) ==
  IF version # None THEN Return(<<>>, [version |-> version[1]])
  ELSE LET v == get_subject_versions(subject, r1, versions)
       IN IF v.kind = "raise" THEN v
          ELSE IF v.value.versions = <<>> THEN Raise(v.reqs, New("ValueError"))
          ELSE Return(v.reqs, [version |-> Max(v.value.versions)])

get_subject_schema(subject, version, r1, versions, r2) ==
  IF subject = "" THEN Raise(<<>>, New("ValueError"))
  ELSE LET v == Latest(subject, version, r1, versions)
       IN IF v.kind = "raise" THEN v
          ELSE LET reqs == v.reqs \o <<Request("registry", "GET",
                              <<"subjects", subject, "versions", ToString(v.value.version), "schema">>, r2)>>
                   e == Try(r2)
               IN IF e = NoException THEN Return(reqs, [of |-> [subject |-> subject, version |-> v.value.version]])
                  ELSE IF IsInstance(e.cls, RegistryConnectionError) THEN Raise(reqs, New("NoSchemaRegistryAvailable"))
                  ELSE Raise(reqs, e)

get_subject_schema_id(subject, version, r1, versions, r2) ==
  IF subject = "" THEN Raise(<<>>, New("ValueError"))
  ELSE LET v == Latest(subject, version, r1, versions)
       IN IF v.kind = "raise" THEN v
          ELSE LET reqs == v.reqs \o <<Request("registry", "GET",
                              <<"subjects", subject, "versions", ToString(v.value.version)>>, r2)>>
                   e == Try(r2)
               IN IF e = NoException THEN Return(reqs, [of |-> [subject |-> subject, version |-> v.value.version]])
                  ELSE IF IsInstance(e.cls, RegistryConnectionError) THEN Raise(reqs, New("NoSchemaRegistryAvailable"))
                  ELSE Raise(reqs, e)

\* schema_id: [pytype, negative] - the Python type of the argument and the
\* sign of a number.  bool is a subclass of int.
\* get_schema without the isinstance check.
get_schema_Unchecked(schema_id, r) ==
  LET reqs == <<Request("registry", "GET", <<"schemas", "ids", "schema_id">>, r)>>
      e == Try(r)
  IN IF e = NoException THEN Return(reqs, [json |-> "schema"])
     ELSE IF IsInstance(e.cls, RegistryConnectionError) THEN Raise(reqs, New("NoSchemaRegistryAvailable"))
     ELSE Raise(reqs, e)

get_schema(schema_id, r) ==
  IF schema_id.pytype \notin {"int", "bool"} THEN Raise(<<>>, New("ValueError"))
  ELSE LET reqs == <<Request("registry", "GET", <<"schemas", "ids", "schema_id">>, r)>>
           e == Try(r)
       IN IF e = NoException THEN Return(reqs, [json |-> "schema"])
          ELSE IF IsInstance(e.cls, RegistryConnectionError) THEN Raise(reqs, New("NoSchemaRegistryAvailable"))
          ELSE Raise(reqs, e)

\* avro.schema.Parse(json_string): the exception it raises, "None" if the
\* text is a valid Avro schema.  It calls json.loads first and turns any
\* failure of it into SchemaParseException.  A schema is [pytype, empty,
\* json, avro]: the Python type of the argument, whether its len() is 0,
\* whether its text is JSON (a dict is dumped to JSON text first) and what
\* the Avro parser makes of the decoded document.
Parse(schema) ==
  IF ~schema.json THEN "SchemaParseException" ELSE schema.avro

\* The validation with a handler for SchemaParseException only.
register_schema_KeyErrorEscapes(subject, avro_schema, r) ==
  IF subject = "" THEN Raise(<<>>, New("ValueError"))
  ELSE IF avro_schema.pytype = "int" THEN Raise(<<>>, New("TypeError"))
  ELSE IF avro_schema.empty THEN Raise(<<>>, New("ValueError"))
  ELSE LET validation ==
             IF avro_schema.pytype \in {"str", "dict"} THEN Parse(avro_schema) ELSE "TypeError"
       IN IF validation # "None" THEN Raise(<<>>, New(validation))
          ELSE LET reqs == <<Request("registry", "POST", <<"subjects", subject, "versions">>, r)>>
                   e == Try(r)
               IN IF e = NoException THEN Return(reqs, [json |-> "id"])
                  ELSE IF IsInstance(e.cls, RegistryConnectionError) THEN Raise(reqs, New("NoSchemaRegistryAvailable"))
                  ELSE Raise(reqs, e)

register_schema(subject, avro_schema, r) ==
  IF subject = "" THEN Raise(<<>>, New("ValueError"))
  ELSE IF avro_schema.pytype = "int" THEN Raise(<<>>, New("TypeError"))
  ELSE IF avro_schema.empty THEN Raise(<<>>, New("ValueError"))
  ELSE LET validation ==
             IF avro_schema.pytype \in {"str", "dict"} THEN Parse(avro_schema) ELSE "TypeError"
       IN IF validation \in {"SchemaParseException", "KeyError"} THEN Raise(<<>>, New("SchemaParseException"))
          ELSE IF validation # "None" THEN Raise(<<>>, New(validation))
          ELSE LET reqs == <<Request("registry", "POST", <<"subjects", subject, "versions">>, r)>>
                   e == Try(r)
               IN IF e = NoException THEN Return(reqs, [json |-> "id"])
                  ELSE IF IsInstance(e.cls, RegistryConnectionError) THEN Raise(reqs, New("NoSchemaRegistryAvailable"))
                  ELSE Raise(reqs, e)

delete_subject(subject, r) ==
  IF subject = "" THEN Raise(<<>>, New("ValueError"))
  ELSE LET reqs == <<Request("registry", "DELETE", <<"subjects", subject>>, r)>>
           e == Try(r)
       IN IF e = NoException THEN Return(reqs, [json |-> "deleted versions"])
          ELSE IF IsInstance(e.cls, RegistryConnectionError) THEN Raise(reqs, New("NoSchemaRegistryAvailable"))
          ELSE Raise(reqs, e)

\* The deletion with a 404 turned into a not-available error, as the
\* connector operations do.
delete_subject_version_Maps404(subject, version, r1, versions, r2) ==
  IF subject = "" THEN Raise(<<>>, New("ValueError"))
  ELSE LET v == Latest(subject, version, r1, versions)
       IN IF v.kind = "raise" THEN v
          ELSE LET reqs == v.reqs \o <<Request("registry", "DELETE",
                              <<"subjects", subject, "versions", ToString(v.value.version)>>, r2)>>
                   e == Try(r2)
               IN IF e = NoException THEN Return(reqs, [of |-> [subject |-> subject, version |-> v.value.version]])
                  ELSE IF IsInstance(e.cls, RegistryConnectionError) THEN Raise(reqs, New("NoSchemaRegistryAvailable"))
                  ELSE IF e.status = 404 THEN Raise(reqs, New("NoConnectorAvailable"))
                  ELSE Raise(reqs, e)

delete_subject_version(subject, version, r1, versions, r2) ==
  IF subject = "" THEN Raise(<<>>, New("ValueError"))
  ELSE LET v == Latest(subject, version, r1, versions)
       IN IF v.kind = "raise" THEN v
          ELSE LET reqs == v.reqs \o <<Request("registry", "DELETE",
                              <<"subjects", subject, "versions", ToString(v.value.version)>>, r2)>>
                   e == Try(r2)
               IN IF e = NoException THEN Return(reqs, [of |-> [subject |-> subject, version |-> v.value.version]])
                  ELSE IF IsInstance(e.cls, RegistryConnectionError) THEN Raise(reqs, New("NoSchemaRegistryAvailable"))
                  ELSE Raise(reqs, e)

-----------------------------------------------------------------------------
(* The state machine *)

NoOutcome == [kind |-> "none", exc |-> "None", status |-> 0]
NoBody == [name |-> "", config |-> Config(<<>>, {}, <<>>, <<>>, <<>>)]
Call(name, id, arg) == [name |-> name, id |-> id, arg |-> arg]

Init ==
  /\ pc = "idle"
  /\ op = Call("none", "", NoArg)
  /\ log = <<>>
  /\ outcome = NoOutcome
  /\ retval = NoValue
  /\ r_json = NoBody
  /\ connectors = <<>>
  /\ pos = 0
  /\ response = <<>>
  /\ inspected = <<>>

\* A call that runs from entry to exit in one step.
Done(o, res) ==
  /\ pc' = "done"
  /\ op' = o
  /\ log' = res.reqs
  /\ outcome' = [kind |-> res.kind, exc |-> res.exc, status |-> res.status]
  /\ retval' = res.value
  /\ r_json' = NoBody
  /\ connectors' = <<>>
  /\ pos' = 0
  /\ response' = <<>>
  /\ inspected' = <<>>

\* Entry into the while loop of get_connector_info.
Enter(o, reqs, names) ==
  /\ pc' = "config"
  /\ op' = o
  /\ log' = reqs
  /\ outcome' = NoOutcome
  /\ retval' = NoValue
  /\ r_json' = NoBody
  /\ connectors' = names
  /\ pos' = IF names = <<>> THEN 0 ELSE 1
  /\ response' = <<>>
  /\ inspected' = <<>>

\* The call in progress ends with an exception.
Abort(lg, e) ==
  /\ pc' = "done"
  /\ log' = lg
  /\ outcome' = [kind |-> "raise", exc |-> e.cls, status |-> e.status]
  /\ retval' = NoValue
  /\ r_json' = NoBody
  /\ response' = <<>>
  /\ UNCHANGED <<op, connectors, pos, inspected>>

\* The identifier get_connector_info is working on.
CurrentId == IF op.name = "get_connectors" THEN connectors[pos] ELSE op.id

\* 409 answers received in a row by the while loop so far.
RECURSIVE TrailingConflicts(_)
TrailingConflicts(lg) ==
  IF lg = <<>> THEN 0
  ELSE IF lg[Len(lg)].ev # "sleep" THEN 0
  ELSE 1 + TrailingConflicts(SubSeq(lg, 1, Len(lg) - 2))

\* The caller has taken the result of a call and is ready for the next one.
next_call ==
  /\ pc = "done"
  /\ pc' = "idle"
  /\ op' = Call("none", "", NoArg)
  /\ log' = <<>>
  /\ outcome' = NoOutcome
  /\ retval' = NoValue
  /\ r_json' = NoBody
  /\ connectors' = <<>>
  /\ pos' = 0
  /\ response' = <<>>
  /\ inspected' = <<>>

connect_init ==
  /\ pc = "idle"
  /\ \E r \in Responses : Done(Call("KafkaConnectManager", "", NoArg), KafkaConnectManager(r))

get_connectors ==
  /\ pc = "idle"
  /\ \E type_ \in valid_connect_types \cup {"", "Source"}, r \in Responses, names \in Listings :
       LET o == Call("get_connectors", type_, NoArg)
           res == Listing(type_, r, names)
       IN IF res.kind = "raise" THEN Done(o, res)
          ELSE IF res.value.names = <<>> THEN Done(o, Return(res.reqs, [infos |-> <<>>]))
          ELSE Enter(o, res.reqs, res.value.names)

get_connector_info ==
  /\ pc = "idle"
  /\ \E id \in Names :
       LET o == Call("get_connector_info", id, NoArg)
       IN IF id = "" THEN Done(o, Raise(<<>>, New("ValueError")))
          ELSE Enter(o, <<>>, <<>>)

get_connector_info_loop ==
  /\ pc = "config"
  /\ \E r \in Responses :
       LET t == ConfigFetch(CurrentId, r)
       IN /\ t.next = "continue" => TrailingConflicts(log) < MaxConflicts
          /\ IF t.next = "raise" THEN Abort(log \o t.events, t.exc)
             ELSE /\ log' = log \o t.events
                  /\ pc' = IF t.next = "break" THEN "status" ELSE "config"
                  /\ r_json' = IF t.next = "break"
                               THEN [name |-> CurrentId, config |-> ServerConfig(CurrentId)]
                               ELSE r_json
                  /\ UNCHANGED <<op, outcome, retval, connectors, pos, response, inspected>>

get_connector_info_rest ==
  /\ pc = "status"
  /\ \E r \in Responses, state \in ConnectorStates :
       LET s == get_connector_status(CurrentId, r, state)
           lg == log \o s.reqs
           en == Enrich(r_json, state)
       IN IF s.kind = "raise" THEN Abort(lg, [cls |-> s.exc, status |-> s.status])
          ELSE IF en.exc # "None" THEN Abort(lg, New(en.exc))
          ELSE IF op.name = "get_connector_info" THEN
                 /\ pc' = "done"
                 /\ log' = lg
                 /\ outcome' = [kind |-> "return", exc |-> "None", status |-> 0]
                 /\ retval' = [info |-> en.info]
                 /\ r_json' = NoBody
                 /\ UNCHANGED <<op, connectors, pos, response, inspected>>
          ELSE LET resp == Collect(response, op.id, en.info)
               IN /\ log' = lg
                  /\ r_json' = NoBody
                  /\ inspected' = Append(inspected, en.info)
                  /\ UNCHANGED <<op, connectors>>
                  /\ IF pos = Len(connectors)
                     THEN /\ pc' = "done"
                          /\ outcome' = [kind |-> "return", exc |-> "None", status |-> 0]
                          /\ retval' = [infos |-> resp]
                          /\ response' = <<>>
                          /\ pos' = pos
                     ELSE /\ pc' = "config"
                          /\ response' = resp
                          /\ pos' = pos + 1
                          /\ UNCHANGED <<outcome, retval>>

get_connector_status_call ==
  /\ pc = "idle"
  /\ \E id \in Names, r \in Responses, state \in ConnectorStates :
       Done(Call("get_connector_status", id, NoArg), get_connector_status(id, r, state))

ConfigArgs ==
  {[pytype |-> "dict", empty |-> b, json |-> "dict"] : b \in BOOLEAN}
  \cup {[pytype |-> "str", empty |-> FALSE, json |-> j] : j \in {"error", "dict", "list"}}
  \cup {[pytype |-> "str", empty |-> TRUE, json |-> "error"],
        [pytype |-> "list", empty |-> FALSE, json |-> "list"],
        [pytype |-> "int", empty |-> FALSE, json |-> "int"]}

load_connector_call ==
  /\ pc = "idle"
  /\ \E id \in Names, config \in ConfigArgs, r \in Responses :
       Done(Call("load_connector", id, [config |-> config]), load_connector(id, config, r))

pause_connector_call ==
  /\ pc = "idle"
  /\ \E id \in Names, r \in Responses : Done(Call("pause_connector", id, NoArg), pause_connector(id, r))

resume_connector_call ==
  /\ pc = "idle"
  /\ \E id \in Names, r \in Responses : Done(Call("resume_connector", id, NoArg), resume_connector(id, r))

restart_connector_call ==
  /\ pc = "idle"
  /\ \E id \in Names, r \in Responses : Done(Call("restart_connector", id, NoArg), restart_connector(id, r))

delete_connector_call ==
  /\ pc = "idle"
  /\ \E id \in Names, r \in Responses : Done(Call("delete_connector", id, NoArg), delete_connector(id, r))

ConnectNext ==
  \/ connect_init
  \/ get_connectors
  \/ get_connector_info
  \/ get_connector_info_loop
  \/ get_connector_info_rest
  \/ get_connector_status_call
  \/ load_connector_call
  \/ pause_connector_call
  \/ resume_connector_call
  \/ restart_connector_call
  \/ delete_connector_call

-----------------------------------------------------------------------------
(* SchemaRegistryManager calls *)

Subjects == {"", "s-key", "s-value"}

NoDuplicates(q) == \A a, b \in 1..Len(q) : a # b => q[a] # q[b]

\* Bodies of the version listing: version numbers in server order.
VersionLists == {q \in SeqsUpTo(1..MaxVersions, MaxVersions) : NoDuplicates(q)}

VersionArgs == {None} \cup {<<v>> : v \in 1..MaxVersions}

SchemaIdArgs == {[pytype |-> "int", negative |-> b] : b \in BOOLEAN}
                \cup {[pytype |-> t, negative |-> FALSE] : t \in {"bool", "str"}}
                \cup {[pytype |-> "float", negative |-> TRUE]}

SchemaArgs ==
  {[pytype |-> t, empty |-> FALSE, json |-> TRUE, avro |-> a] :
      t \in {"str", "dict"}, a \in {"None", "SchemaParseException", "KeyError"}}
  \cup {[pytype |-> "str", empty |-> FALSE, json |-> FALSE, avro |-> "SchemaParseException"]}
  \cup {[pytype |-> t, empty |-> TRUE, json |-> t = "dict", avro |-> "SchemaParseException"] :
          t \in {"str", "dict"}}
  \cup {[pytype |-> "list", empty |-> FALSE, json |-> TRUE, avro |-> "None"],
        [pytype |-> "int", empty |-> FALSE, json |-> TRUE, avro |-> "SchemaParseException"]}

registry_init ==
  /\ pc = "idle"
  /\ \E r \in Responses : Done(Call("SchemaRegistryManager", "", NoArg), SchemaRegistryManager(r))

get_config_call ==
  /\ pc = "idle"
  /\ \E r \in Responses : Done(Call("get_config", "", NoArg), get_config(r))

get_subjects_call ==
  /\ pc = "idle"
  /\ \E r \in Responses : Done(Call("get_subjects", "", NoArg), get_subjects(r))

get_subject_versions_call ==
  /\ pc = "idle"
  /\ \E subject \in Subjects, r \in Responses, versions \in VersionLists :
       Done(Call("get_subject_versions", subject, NoArg), get_subject_versions(subject, r, versions))

get_subject_schema_call ==
  /\ pc = "idle"
  /\ \E subject \in Subjects, version \in VersionArgs, r1, r2 \in Responses, versions \in VersionLists :
       Done(Call("get_subject_schema", subject, [version |-> version]),
            get_subject_schema(subject, version, r1, versions, r2))

get_subject_schema_id_call ==
  /\ pc = "idle"
  /\ \E subject \in Subjects, version \in VersionArgs, r1, r2 \in Responses, versions \in VersionLists :
       Done(Call("get_subject_schema_id", subject, [version |-> version]),
            get_subject_schema_id(subject, version, r1, versions, r2))

get_schema_call ==
  /\ pc = "idle"
  /\ \E schema_id \in SchemaIdArgs, r \in Responses :
       Done(Call("get_schema", "", [schema_id |-> schema_id]), get_schema(schema_id, r))

register_schema_call ==
  /\ pc = "idle"
  /\ \E subject \in Subjects, avro_schema \in SchemaArgs, r \in Responses :
       Done(Call("register_schema", subject, [schema |-> avro_schema]), register_schema(subject, avro_schema, r))

delete_subject_call ==
  /\ pc = "idle"
  /\ \E subject \in Subjects, r \in Responses :
       Done(Call("delete_subject", subject, NoArg), delete_subject(subject, r))

delete_subject_version_call ==
  /\ pc = "idle"
  /\ \E subject \in Subjects, version \in VersionArgs, r1, r2 \in Responses, versions \in VersionLists :
       Done(Call("delete_subject_version", subject, [version |-> version]),
            delete_subject_version(subject, version, r1, versions, r2))

RegistryNext ==
  \/ registry_init
  \/ get_config_call
  \/ get_subjects_call
  \/ get_subject_versions_call
  \/ get_subject_schema_call
  \/ get_subject_schema_id_call
  \/ get_schema_call
  \/ register_schema_call
  \/ delete_subject_call
  \/ delete_subject_version_call

Next == ConnectNext \/ RegistryNext \/ next_call

Spec == Init /\ [][Next]_vars

-----------------------------------------------------------------------------
(* get_connector_info alone, with the while loop free to turn any number of *)
(* times.  The loop has no counter: a turn answered with 409 is always      *)
(* possible.  The log keeps the last MaxConflicts turns of the loop, all of  *)
(* them the same request and sleep.                                          *)

\* A turn of the while loop answered with 409: sleep(1); continue.
get_connector_info_conflict ==
  /\ pc = "config"
  /\ \E r \in Responses :
       LET t == ConfigFetch(CurrentId, r)
       IN /\ t.next = "continue"
          /\ log' = IF TrailingConflicts(log) < MaxConflicts THEN log \o t.events ELSE log
          /\ UNCHANGED <<pc, op, outcome, retval, r_json, connectors, pos, response, inspected>>

\* A turn of the while loop answered with anything else: break or raise.
get_connector_info_answer ==
  /\ pc = "config"
  /\ \E r \in Responses :
       LET t == ConfigFetch(CurrentId, r)
       IN /\ t.next # "continue"
          /\ IF t.next = "raise" THEN Abort(log \o t.events, t.exc)
             ELSE /\ log' = log \o t.events
                  /\ pc' = "status"
                  /\ r_json' = [name |-> CurrentId, config |-> ServerConfig(CurrentId)]
                  /\ UNCHANGED <<op, outcome, retval, connectors, pos, response, inspected>>

LiveNext ==
  \/ get_connector_info
  \/ get_connector_info_conflict
  \/ get_connector_info_answer
  \/ get_connector_info_rest
  \/ next_call

\* The server does not answer the config fetch with 409 forever, and every
\* exchange the code starts comes to an end.
LiveSpec ==
  /\ Init
  /\ [][LiveNext]_vars
  /\ WF_vars(get_connector_info_answer)
  /\ WF_vars(get_connector_info_rest)

-----------------------------------------------------------------------------
(* Properties *)

Last(lg) == lg[Len(lg)]

\* The exchange at position k of the log is the config fetch of connector id
\* answered with status code st.
ConfigFetched(k, id, st) ==
  /\ log[k].ev = "request"
  /\ log[k].method = "GET"
  /\ log[k].url = <<"connectors", id>>
  /\ ~log[k].fail
  /\ log[k].status = st

Conflicts == {k \in 1..Len(log) : log[k].ev = "request" /\ ~log[k].fail /\ log[k].status = 409
                                   /\ Len(log[k].url) = 2}

Returned == pc = "done" /\ outcome.kind = "return"
Raised == pc = "done" /\ outcome.kind = "raise"

\* C1: an inspect whose config fetch is answered k times with 409 and then
\* with 200 returns after exactly k+1 config requests to the same URL, with
\* exactly one sleep of 1 second after each 409 and before the next attempt;
\* the status fetch follows the successful config fetch.
C1_RetryAfterConflict ==
  op.name = "get_connector_info" =>
    /\ \A k \in 1..Len(log) :
         /\ ConfigFetched(k, op.id, 409) =>
              k + 1 <= Len(log) /\ log[k + 1].ev = "sleep" /\ log[k + 1].secs = 1
         /\ log[k].ev = "sleep" => k > 1 /\ ConfigFetched(k - 1, op.id, 409)
    /\ Returned =>
         LET n == Cardinality(Conflicts)
         IN /\ Len(log) = 2 * n + 2
            /\ \A j \in 1..n : ConfigFetched(2 * j - 1, op.id, 409) /\ log[2 * j] = Sleep(1)
            /\ ConfigFetched(2 * n + 1, op.id, 200)
            /\ log[2 * n + 2].url = <<"connectors", op.id, "status">>

C1_Witness ==
  /\ op.name = "get_connector_info"
  /\ Returned
  /\ Cardinality(Conflicts) = 2
  /\ Len(log) = 6

\* C2 as stated: no inspect ends with an error right after a 409 answer,
\* whichever of its two fetches (config, status) received it.
C2_ConflictNeverSurfaced ==
  (op.name = "get_connector_info" /\ Raised /\ log # <<>>) =>
    ~(~Last(log).fail /\ Last(log).status = 409)

\* C2 amended: a 409 answer to the config fetch of an inspect (alone or
\* inside a list) never ends the call: the call sleeps and is still in its
\* loop.  A 409 answer to the status fetch ends it with an HTTPError.
C2_ConfigConflictNeverSurfaced ==
  op.name \in {"get_connector_info", "get_connectors"} =>
    /\ \A k \in Conflicts : k < Len(log)
    /\ (log # <<>> /\ Last(log).ev = "sleep") => pc = "config" /\ outcome.kind = "none"
    /\ (pc = "done" /\ log # <<>> /\ ~Last(log).fail /\ Last(log).status = 409) =>
         /\ Len(Last(log).url) # 2
         /\ Len(Last(log).url) = 3 => outcome.kind = "raise" /\ outcome.exc = "requests.HTTPError"

C2_Witness ==
  /\ op.name = "get_connector_info"
  /\ Raised
  /\ Len(log) = 4
  /\ ConfigFetched(1, op.id, 409)
  /\ ConfigFetched(3, op.id, 200)
  /\ Last(log).url = <<"connectors", op.id, "status">>
  /\ Last(log).status = 409

\* C3: a call with a category outside source/sink/all, or with an empty name
\* or subject, ends with ValueError and has issued no request.
C3_InvalidArgumentBeforeRequests ==
  LET invalid ==
        \/ op.name = "get_connectors" /\ op.id \notin {"source", "sink", "all"}
        \/ /\ op.name \in {"get_connector_info", "get_connector_status", "load_connector",
                           "pause_connector", "resume_connector", "restart_connector",
                           "delete_connector", "get_subject_versions", "get_subject_schema",
                           "get_subject_schema_id", "register_schema", "delete_subject",
                           "delete_subject_version"}
           /\ op.id = ""
  IN invalid => /\ pc = "done"
                /\ outcome.kind = "raise"
                /\ outcome.exc = "ValueError"
                /\ log = <<>>

C3_Witness ==
  /\ op.name = "get_connectors"
  /\ op.id = "Source"
  /\ Raised
  /\ outcome.exc = "ValueError"

\* C4: a call that ends with ValueError has issued no request.
C4_ValueErrorBeforeRequests ==
  (Raised /\ outcome.exc = "ValueError") => log = <<>>

\* C5: a call whose last exchange failed at the transport level ends with the
\* unavailable error of its manager.
C5_TransportFailureTyped ==
  (pc = "done" /\ log # <<>> /\ Last(log).fail) =>
    /\ outcome.kind = "raise"
    /\ outcome.exc = IF Last(log).server = "connect" THEN "NoConnectServerAvailable"
                     ELSE "NoSchemaRegistryAvailable"

\* C6: pause, resume, restart and delete end with NoConnectorAvailable on a
\* 404 answer, with a plain HTTPError on any other 4xx/5xx answer, and return
\* True on a 2xx answer.
C6_LifecycleStatusMapping ==
  (/\ op.name \in {"pause_connector", "resume_connector", "restart_connector", "delete_connector"}
   /\ pc = "done" /\ log # <<>> /\ ~Last(log).fail) =>
    LET st == Last(log).status
    IN /\ st = 404 => outcome.kind = "raise" /\ outcome.exc = "NoConnectorAvailable"
       /\ (st >= 400 /\ st # 404) => outcome.kind = "raise" /\ outcome.exc = "requests.HTTPError"
       /\ st < 300 => outcome.kind = "return" /\ retval = [bool |-> TRUE]

\* C7: a call that ends on a 4xx/5xx answer that is not mapped to
\* NoConnectorAvailable ends with an HTTPError carrying that answer.
C7_HttpErrorCarriesResponse ==
  (/\ Raised /\ log # <<>> /\ ~Last(log).fail /\ Last(log).status >= 400
   /\ ~(Last(log).status = 404 /\ outcome.exc = "NoConnectorAvailable")) =>
    /\ outcome.exc = "requests.HTTPError"
    /\ outcome.status = Last(log).status

\* C8 as stated: a delete_subject_version whose DELETE is answered with 404
\* ends with a not-found error, not with the plain HTTPError.
C8_DeleteVersion404NotFound ==
  (/\ op.name = "delete_subject_version" /\ pc = "done" /\ log # <<>>
   /\ Last(log).method = "DELETE" /\ ~Last(log).fail /\ Last(log).status = 404) =>
    /\ outcome.kind = "raise"
    /\ outcome.exc # "requests.HTTPError"

\* C8 amended: a delete_subject_version whose DELETE is answered with 404
\* ends with the plain HTTPError of that answer.
C8_DeleteVersion404HttpError ==
  (/\ op.name = "delete_subject_version" /\ pc = "done" /\ log # <<>>
   /\ Last(log).method = "DELETE" /\ ~Last(log).fail /\ Last(log).status = 404) =>
    /\ outcome.kind = "raise"
    /\ outcome.exc = "requests.HTTPError"
    /\ outcome.status = 404

C8_Witness ==
  /\ op.name = "delete_subject_version"
  /\ op.arg.version = <<1>>
  /\ Raised
  /\ Len(log) = 1
  /\ Last(log).method = "DELETE"
  /\ Last(log).status = 404

\* The category of each connector of the server, by its connector.class.
Category(name) ==
  CASE name \in {"jdbc", "query", "bare", "h2"} -> "source"
    [] name \in {"s3", "sink"} -> "sink"
    [] OTHER -> "undetermined"

C10_LocalValidationBeforePost ==
  (op.name = "register_schema" /\ pc = "done") =>
    LET schema == op.arg.schema
        rejected == ~schema.json \/ schema.avro # "None"
    IN /\ (op.id # "" /\ ~schema.empty /\ schema.pytype \in {"str", "dict"} /\ rejected) =>
            /\ outcome.kind = "raise"
            /\ outcome.exc = "SchemaParseException"
            /\ log = <<>>
       /\ log # <<>> => schema.pytype \in {"str", "dict"} /\ ~rejected

C10_Witness ==
  /\ op.name = "register_schema"
  /\ op.id # ""
  /\ op.arg.schema.pytype = "dict"
  /\ op.arg.schema.avro = "KeyError"
  /\ Raised
  /\ outcome.exc = "SchemaParseException"
  /\ log = <<>>

\* C11: get_subject_schema, get_subject_schema_id and delete_subject_version
\* called with a version issue exactly one request, the one for that version,
\* and no listing.  Called without a version they issue the version listing
\* first and, when the listing is answered with a non-empty list, exactly one
\* more request: the one for the greatest version of that list; a call
\* without a version that returns has issued exactly these two requests.
C11_LatestResolution ==
  (/\ op.name \in {"get_subject_schema", "get_subject_schema_id", "delete_subject_version"}
   /\ pc = "done" /\ op.id # "") =>
    LET method == IF op.name = "delete_subject_version" THEN "DELETE" ELSE "GET"
        target(v) == IF op.name = "get_subject_schema"
                     THEN <<"subjects", op.id, "versions", ToString(v), "schema">>
                     ELSE <<"subjects", op.id, "versions", ToString(v)>>
        listing == <<"subjects", op.id, "versions">>
    IN IF op.arg.version # <<>>
       THEN /\ Len(log) = 1
            /\ log[1].method = method
            /\ log[1].url = target(op.arg.version[1])
       ELSE /\ Len(log) \in {1, 2}
            /\ log[1].method = "GET"
            /\ log[1].url = listing
            /\ Returned => Len(log) = 2
            /\ (~log[1].fail /\ log[1].status = 200 /\ log[1].body.versions # <<>>) =>
                 /\ Len(log) = 2
                 /\ log[2].method = method
                 /\ \E k \in 1..Len(log[1].body.versions) :
                      /\ log[2].url = target(log[1].body.versions[k])
                      /\ \A j \in 1..Len(log[1].body.versions) :
                           log[1].body.versions[j] <= log[1].body.versions[k]

C11_Witness ==
  /\ op.name = "get_subject_schema"
  /\ op.arg.version = <<>>
  /\ Returned
  /\ Len(log) = 2
  /\ log[1].body.versions = <<1, 2>>
  /\ log[2].url = <<"subjects", op.id, "versions", "2", "schema">>

\* C12: an inspect that returns for a JDBC source connector whose
\* configuration has table.whitelist t1,...,tn and topic.prefix p reports
\* the tables [t1..tn], the topics [p+t1..p+tn] and 2n subjects, the i-th
\* topic's "-key" subject immediately followed by its "-value" subject.
C12_WhitelistTablesTopicsSubjects ==
  (/\ op.name = "get_connector_info" /\ Returned
   /\ ServerConfig(op.id).class = JdbcSourceConnector
   /\ "table.whitelist" \in ServerConfig(op.id).keys) =>
    LET whitelist == ServerConfig(op.id).whitelist
        p == ServerConfig(op.id).prefix
        info == retval.info
        n == Len(info.tables)
    IN /\ {"tables", "topics", "subjects"} \subseteq info.keys
       /\ ~info.topics_is_str
       /\ Len(whitelist) = 2 * n - 1
       /\ \A i \in 1..n : info.tables[i] = <<whitelist[2 * i - 1]>>
       /\ \A i \in 1..(n - 1) : whitelist[2 * i] = ","
       /\ Len(info.topics) = n
       /\ \A i \in 1..n : info.topics[i] = p \o info.tables[i]
       /\ Len(info.subjects) = 2 * n
       /\ \A i \in 1..n : /\ info.subjects[2 * i - 1] = info.topics[i] \o <<"-key">>
                          /\ info.subjects[2 * i] = info.topics[i] \o <<"-value">>

C12_Witness ==
  /\ op.name = "get_connector_info" /\ op.id = "jdbc" /\ Returned
  /\ retval.info.tables = << <<"t1">>, <<"t2">> >>
  /\ retval.info.topics = << <<"p", "-", "t1">>, <<"p", "-", "t2">> >>
  /\ retval.info.subjects = << <<"p", "-", "t1", "-key">>, <<"p", "-", "t1", "-value">>,
                               <<"p", "-", "t2", "-key">>, <<"p", "-", "t2", "-value">> >>

\* C13: an inspect that returns for a JDBC source connector whose
\* configuration has no table.whitelist reports no tables, a topics list
\* whose only element is the topic.prefix value, and exactly the two
\* subjects topic.prefix + "-key" and topic.prefix + "-value".
C13_QueryModeSoleTopic ==
  (/\ op.name = "get_connector_info" /\ Returned
   /\ ServerConfig(op.id).class = JdbcSourceConnector
   /\ "table.whitelist" \notin ServerConfig(op.id).keys) =>
    LET p == ServerConfig(op.id).prefix
        info == retval.info
    IN /\ info.tables = <<>>
       /\ ~info.topics_is_str
       /\ info.topics = <<p>>
       /\ info.subjects = <<p \o <<"-key">>, p \o <<"-value">>>>

\* The entry "topics" of an inspect result holds at least one topic.
TopicsPopulated(info) ==
  "topics" \in info.keys /\ (info.topics_is_str \/ info.topics # <<>>)

\* C14 as stated: an inspect result has topics only for a JDBC source whose
\* connection URL names one of the five dialects, and for every other
\* connector the result's topics entry is the empty list.
C14_TopicsOnlyForResolvedJdbc ==
  (op.name = "get_connector_info" /\ Returned) =>
    LET config == ServerConfig(op.id)
        info == retval.info
        resolved == /\ config.class = JdbcSourceConnector
                    /\ \E d \in {"mysql", "oracle", "postgresql", "sqlserver", "mariadb"} :
                         Contains(config.url, <<d>>)
    IN /\ TopicsPopulated(info) => resolved
       /\ ~resolved => "topics" \in info.keys /\ ~info.topics_is_str /\ info.topics = <<>>

\* C14: an inspect result has the entries tables, topics and subjects, with
\* topics populated, exactly when the connector's class is the JDBC source
\* class, whether or not the connection URL names one of the five dialects
\* (only the jdbc_* entries depend on the dialect).  For a connector of any
\* other known class the result has none of the three entries; for a class
\* not in the known-class chain it has topics, the empty list, and neither
\* tables nor subjects.  An inspect of a connector that is not a JDBC source
\* raises only what its two fetches raise.
C14_TopicsForJdbcSourceClass ==
  (op.name = "get_connector_info" /\ pc = "done" /\ op.id # "") =>
    LET config == ServerConfig(op.id)
        info == retval.info
        jdbcSource == config.class = JdbcSourceConnector
        known == config.class \in {ActiveMQSourceConnectorConfig, S3SinkConnector,
                                   ElasticsearchSinkConnector, HdfsSinkConnector,
                                   IbmMQSourceConnectorConfig, JdbcSinkConnector,
                                   JmsSourceConnector}
    IN /\ Returned =>
            /\ jdbcSource =>
                 /\ {"class", "tables", "topics", "subjects"} \subseteq info.keys
                 /\ TopicsPopulated(info)
                 /\ info.subjects # <<>>
                 /\ "jdbc_type" \in info.keys <=>
                      \E d \in {"mysql", "oracle", "postgresql", "sqlserver", "mariadb"} :
                        Contains(config.url, <<d>>)
            /\ known => info.keys = {"vendor", "state", "type", "class"}
            /\ (~jdbcSource /\ ~known) =>
                 /\ info.keys = {"vendor", "state", "type", "topics"}
                 /\ ~info.topics_is_str
                 /\ info.topics = <<>>
       /\ (Raised /\ ~jdbcSource) =>
            /\ Last(log).ev = "request"
            /\ Last(log).fail \/ Last(log).status # 200
            /\ outcome.exc \in {"NoConnectServerAvailable", "NoConnectorAvailable",
                                "requests.HTTPError"}

C14_Witness ==
  /\ op.name = "get_connector_info" /\ op.id = "h2" /\ Returned
  /\ "jdbc_type" \notin retval.info.keys
  /\ retval.info.topics = << <<"h", "t3">> >>
  /\ retval.info.subjects = << <<"h", "t3", "-key">>, <<"h", "t3", "-value">> >>

\* C15 as stated: get_schema issues a request only for a schema_id that is
\* a non-negative integer, and for every other schema_id ends with
\* ValueError without having issued a request.
C15_NonNegativeIntegerBeforeRequest ==
  (op.name = "get_schema" /\ pc = "done") =>
    LET schema_id == op.arg.schema_id
        accepted == schema_id.pytype \in {"int", "bool"} /\ ~schema_id.negative
    IN /\ log # <<>> => accepted
       /\ ~accepted => log = <<>> /\ outcome.exc = "ValueError"

\* C15: get_schema issues its one request exactly when schema_id is an
\* instance of int, of either sign (a bool is one); for every other
\* schema_id it ends with ValueError without having issued a request.  A
\* negative integer is sent to the registry like any other.
C15_IntegerBeforeRequest ==
  (op.name = "get_schema" /\ pc = "done") =>
    LET schema_id == op.arg.schema_id
    IN IF schema_id.pytype \in {"int", "bool"}
       THEN /\ Len(log) = 1
            /\ log[1].server = "registry"
            /\ log[1].method = "GET"
            /\ log[1].url = <<"schemas", "ids", "schema_id">>
            /\ outcome.exc # "ValueError"
       ELSE /\ log = <<>>
            /\ Raised
            /\ outcome.exc = "ValueError"

C15_Witness ==
  /\ op.name = "get_schema"
  /\ op.arg.schema_id = [pytype |-> "int", negative |-> TRUE]
  /\ Returned
  /\ Len(log) = 1

\* C16: while get_connector_info is in its while loop another turn answered
\* with 409 is always possible, whatever the number of turns so far, and the
\* loop is left only by a config fetch that was not answered with 409 (a
\* 409 turn neither returns nor raises); if the server does not answer 409
\* forever, every get_connector_info that entered the loop comes to an end,
\* with a result or an exception.
C16_InspectEndsUnlessConflictForever ==
  /\ [](pc = "config" => ENABLED get_connector_info_conflict)
  /\ [][(pc = "config" /\ pc' # "config") =>
          /\ Last(log').ev = "request"
          /\ Last(log').url = <<"connectors", op.id>>
          /\ Last(log').fail \/ Last(log').status # 409]_vars
  /\ [][(pc = "config" /\ pc' = "config") => outcome' = NoOutcome /\ retval' = NoValue]_vars
  /\ (pc = "config") ~> (pc = "done" /\ outcome.kind \in {"return", "raise"})

C16_Witness ==
  /\ op.name = "get_connector_info"
  /\ Returned
  /\ Len(log) = 2 * MaxConflicts + 2
  /\ \A k \in 1..MaxConflicts : log[2 * k - 1].status = 409 /\ log[2 * k].ev = "sleep"
  /\ log[2 * MaxConflicts + 1].status = 200

\* C17: a load_connector that issued its POST was given a config that is a
\* dict or a string whose JSON text decodes to a dict; a string that decodes
\* to anything else ends with ValueError and no request, like a config that
\* is neither a string nor a dict.
C17_PostedConfigIsMapping ==
  (op.name = "load_connector" /\ pc = "done") =>
    LET config == op.arg.config
        mapping == \/ config.pytype = "dict"
                   \/ config.pytype = "str" /\ config.json = "dict"
    IN /\ log # <<>> => mapping
       /\ (op.id # "" /\ ~config.empty /\ config.pytype \in {"str", "list"} /\ ~mapping) =>
            log = <<>> /\ outcome.exc = "ValueError"

====
